---- MODULE Spec2Model ----
(***************************************************************************)
(* The invoice routes of app/routes/invoices.py: create_invoice,           *)
(* list_invoices, get_invoice and delete_invoice over the tables clients,  *)
(* products, invoices and invoice_items.                                   *)
(*                                                                         *)
(* Money is kept in hundredths (a price of 200 is 2.00), so that           *)
(* subtotal * (tax / 100) is an exact integer for the prices modelled;     *)
(* the rounding of binary floating point is not modelled.  The date        *)
(* columns and the name/address columns are carried through by the code    *)
(* unchanged and are left out.                                             *)
(***************************************************************************)
EXTENDS Integers, Sequences, FiniteSets, TLC

\* ------------------------------------------------------------ bounds
MaxInvoices == 2      \* invoices rows ever inserted (ids 1..MaxInvoices)
MaxItems == 2         \* length of a request's items list
MaxClock == 1         \* values of the created_at timestamp: 0..MaxClock
MaxWrites == 1        \* writes by others to the tables clients and products
MaxRequests == 2      \* requests taken up by the workers (SpecConc)

ClientIds  == {1, 2}
ProductIds == {1, 2}
Prices     == {200, 300}
Quantities == {1, 2}
Taxes      == {10}
InvoiceNos == {"A", "B"}
Workers    == {1, 2}  \* requests in flight at once (SpecConc)

VARIABLES
    clients,        \* ids of the rows of table clients
    products,       \* table products: product id -> price
    invoices,       \* committed rows of table invoices
    invoice_items,  \* committed rows of table invoice_items
    nextInvoiceId,  \* next rowid of invoices
    writes,         \* writes by others to clients and products so far
    clock,          \* the store's CURRENT_TIMESTAMP
    scope,          \* what a nested get_db() scope is: "shared" | "separate"
    last,           \* the request handled last and its response
    started,        \* requests taken up by the workers so far
    txn             \* per worker: the request in flight, its position, its uncommitted writes

vars == <<clients, products, invoices, invoice_items, nextInvoiceId, writes,
          clock, scope, last, started, txn>>

\* ------------------------------------------------------------ requests
\* InvoiceItem: product_id: int, quantity: int > 0
InvoiceItem == [product_id : ProductIds, quantity : Quantities]

ItemLists == UNION {[1..n -> InvoiceItem] : n \in 0..MaxItems}

\* InvoiceCreate: invoice_no, client_id, items, tax >= 0
InvoiceCreate ==
    [invoice_no : InvoiceNos, client_id : ClientIds, items : ItemLists, tax : Taxes]

InvoiceIds == 1..MaxInvoices

\* ------------------------------------------------------------ helpers
RECURSIVE SumRows(_)
\* sum of unit_price * quantity over a set of invoice_items rows
SumRows(rows) ==
    IF rows = {} THEN 0
    ELSE LET r == CHOOSE x \in rows : TRUE
         IN  r.unit_price * r.quantity + SumRows(rows \ {r})

RECURSIVE SumValidated(_)
\* subtotal += item_subtotal over validated_items
SumValidated(v) ==
    IF v = <<>> THEN 0
    ELSE v[1].unit_price * v[1].quantity + SumValidated(Tail(v))

\* tax_amount = subtotal * (tax / 100)
TaxAmount(subtotal, tax) == (subtotal * tax) \div 100

\* total = subtotal + tax_amount
Total(subtotal, tax) == subtotal + TaxAmount(subtotal, tax)

NoResponse == [status |-> 0]

\* ------------------------------------------------------------ get_invoice
\* SELECT ... FROM invoices i JOIN clients c ON i.client_id = c.id WHERE i.id = ?
InvoiceRow(invs, cl, id) == {i \in invs : i.id = id /\ i.client_id \in cl}

\* SELECT ... FROM invoice_items ii JOIN products p ON ii.product_id = p.id
\* WHERE ii.invoice_id = ?
ItemRows(items, pr, id) ==
    {it \in items : it.invoice_id = id /\ it.product_id \in DOMAIN pr}

\* get_invoice against the rows a scope sees
get_invoice(invs, items, cl, pr, id) ==
    IF InvoiceRow(invs, cl, id) = {}
    THEN [status |-> 404, detail |-> "invoice"]
    ELSE LET invoice_row == CHOOSE i \in InvoiceRow(invs, cl, id) : TRUE
             items_rows  == ItemRows(items, pr, id)
             subtotal    == SumRows(items_rows)
         IN  [status     |-> 200,
              id         |-> invoice_row.id,
              invoice_no |-> invoice_row.invoice_no,
              client     |-> invoice_row.client_id,
              items      |-> items_rows,
              tax        |-> invoice_row.tax,
              subtotal   |-> subtotal,
              tax_amount |-> TaxAmount(subtotal, invoice_row.tax),
              total      |-> invoice_row.total]

\* ------------------------------------------------------------ list_invoices
\* FROM invoices i JOIN clients c ON i.client_id = c.id
ListRows(invs, cl) == {i \in invs : i.client_id \in cl}

Summary(i) == [id |-> i.id, invoice_no |-> i.invoice_no, total |-> i.total]

\* ORDER BY i.created_at DESC: every order of the rows with created_at
\* non-increasing; rows with equal created_at come in any order
Orderings(rows) ==
    {s \in [1..Cardinality(rows) -> rows] :
        /\ \A a, b \in DOMAIN s : a # b => s[a] # s[b]
        /\ \A a, b \in DOMAIN s : a < b => s[a].created_at >= s[b].created_at}

\* ------------------------------------------------------------ get_db
\* What the scope opened by a nested get_db() reads while the enclosing
\* scope holds uncommitted writes: the enclosing scope's rows when the two
\* scopes share one connection, the committed rows when they do not.
NestedView(mode, committed, uncommitted) ==
    IF mode = "shared" THEN uncommitted ELSE committed

\* Leaving a get_db() scope: commit on a normal exit, rollback on an exception.
ScopeExit(ok, committed, uncommitted) ==
    IF ok THEN uncommitted ELSE committed

\* ------------------------------------------------------------ create_invoice
\* SELECT id FROM clients WHERE id = ?
ClientExists(cl, req) == req.client_id \in cl

\* the uniqueness check left out
InvoiceNoExists_Never(invs, req) == FALSE

\* SELECT id FROM invoices WHERE invoice_no = ?
InvoiceNoExists(invs, req) == \E i \in invs : i.invoice_no = req.invoice_no

\* SELECT id, name, price FROM products WHERE id = ?
ProductExists(pr, item) == item.product_id \in DOMAIN pr

\* the product looked up for the first item only
FirstMissing_FirstOnly(pr, items) ==
    IF items # <<>> /\ ~ProductExists(pr, items[1]) THEN 1 ELSE 0

\* the index of the first item whose product is None, 0 when there is none
FirstMissing(pr, items) ==
    IF \A k \in DOMAIN items : ProductExists(pr, items[k]) THEN 0
    ELSE CHOOSE k \in DOMAIN items :
            /\ ~ProductExists(pr, items[k])
            /\ \A j \in 1..(k - 1) : ProductExists(pr, items[j])

\* validated_items.append({... "unit_price": product["price"] ...})
ValidatedItem(pr, item) ==
    [product_id |-> item.product_id, quantity |-> item.quantity,
     unit_price |-> pr[item.product_id]]

\* INSERT INTO invoices (invoice_no, ..., client_id, tax, total); created_at
\* is the column's default, the store's current timestamp
InvoiceInsert(req, id, total, now) ==
    [id |-> id, invoice_no |-> req.invoice_no, client_id |-> req.client_id,
     tax |-> req.tax, total |-> total, created_at |-> now]

\* SELECT price FROM products WHERE id = ?  then
\* INSERT INTO invoice_items (invoice_id, product_id, quantity, unit_price)
ItemInsert(pr, item, invoice_id, id) ==
    [id |-> id, invoice_id |-> invoice_id, product_id |-> item.product_id,
     quantity |-> item.quantity, unit_price |-> pr[item.product_id]]

\* the rowid of the k-th invoice_items row of an invoice: rows are numbered
\* in insertion order, and an invoice's rows are inserted together
ItemId(invoice_id, k) == (invoice_id - 1) * MaxItems + k

Failure(status, detail) ==
    [status |-> status, detail |-> detail, body |-> NoResponse,
     invoices |-> invoices, invoice_items |-> invoice_items, inserted |-> FALSE]

\* The whole handler, run with no other request in between.
create_invoice(req) ==
    IF ~ClientExists(clients, req) THEN Failure(404, "client")
    ELSE IF InvoiceNoExists(invoices, req) THEN Failure(400, "invoice_no")
    ELSE IF FirstMissing(products, req.items) # 0 THEN Failure(404, "product")
    ELSE IF \E k \in DOMAIN req.items : ~ProductExists(products, req.items[k])
    THEN \* cursor.fetchone()["price"] on None: an Exception, answered 500
         [status |-> 500, detail |-> "error", body |-> NoResponse,
          invoices |-> invoices, invoice_items |-> invoice_items, inserted |-> TRUE]
    ELSE
      LET validated_items ==
              [k \in DOMAIN req.items |-> ValidatedItem(products, req.items[k])]
          subtotal   == SumValidated(validated_items)
          total      == Total(subtotal, req.tax)
          invoice_id == nextInvoiceId
          written    == invoices \cup {InvoiceInsert(req, invoice_id, total, clock)}
          writtenItems ==
              invoice_items \cup
              {ItemInsert(products, req.items[k], invoice_id, ItemId(invoice_id, k)) :
                  k \in DOMAIN req.items}
          body == get_invoice(NestedView(scope, invoices, written),
                              NestedView(scope, invoice_items, writtenItems),
                              clients, products, invoice_id)
          ok == body.status = 200
      IN  [status   |-> IF ok THEN 201 ELSE body.status,
           detail   |-> IF ok THEN "" ELSE body.detail,
           body     |-> IF ok THEN body ELSE NoResponse,
           invoices |-> ScopeExit(ok, invoices, written),
           invoice_items |-> ScopeExit(ok, invoice_items, writtenItems),
           inserted |-> TRUE]

\* ------------------------------------------------------------ delete_invoice
\* SELECT id FROM invoices WHERE id = ?
InvoiceExists(invs, id) == \E i \in invs : i.id = id

\* the item rows left behind
DeleteItems_None(items, id) == items

\* DELETE FROM invoice_items WHERE invoice_id = ?
DeleteItems(items, id) == {it \in items : it.invoice_id # id}

\* the invoices row left behind
DeleteInvoiceRow_None(invs, id) == invs

\* DELETE FROM invoices WHERE id = ?
DeleteInvoiceRow(invs, id) == {i \in invs : i.id # id}

delete_invoice(invs, items, id) ==
    IF ~InvoiceExists(invs, id)
    THEN [status |-> 404, detail |-> "invoice",
          invoices |-> invs, invoice_items |-> items]
    ELSE [status |-> 204, detail |-> "",
          invoices |-> DeleteInvoiceRow(invs, id),
          invoice_items |-> DeleteItems(items, id)]

\* ------------------------------------------------------------ state
Idle == [pc |-> "idle"]

\* what a create request asked for, as the store stood when it arrived
NoPre == [client |-> FALSE, used |-> FALSE, missing |-> 0, n |-> 0]

NoRequest ==
    [op |-> "none", key |-> 0, pre |-> NoPre, status |-> 0, detail |-> "",
     body |-> NoResponse]

Init ==
    /\ clients = {1}
    /\ products = (1 :> 200)
    /\ invoices = {}
    /\ invoice_items = {}
    /\ nextInvoiceId = 1
    /\ writes = 0
    /\ clock = 0
    /\ scope \in {"shared", "separate"}
    /\ last = NoRequest
    /\ started = 0
    /\ txn = [w \in Workers |-> Idle]

\* ------------------------------------------------------------ requests, one at a time
\* POST /invoices
Create(req) ==
    LET r == create_invoice(req)
    IN  /\ r.inserted => nextInvoiceId <= MaxInvoices
        /\ invoices' = r.invoices
        /\ invoice_items' = r.invoice_items
        /\ nextInvoiceId' = IF r.inserted THEN nextInvoiceId + 1 ELSE nextInvoiceId
        /\ last' = [op |-> "create", key |-> req.invoice_no,
                    pre |-> [client  |-> req.client_id \in clients,
                             used    |-> req.invoice_no \in {i.invoice_no : i \in invoices},
                             missing |-> Cardinality({k \in DOMAIN req.items :
                                             req.items[k].product_id \notin DOMAIN products}),
                             n       |-> Len(req.items)],
                    status |-> r.status, detail |-> r.detail, body |-> r.body]
        /\ UNCHANGED <<clients, products, writes, clock, scope, started, txn>>

\* GET /invoices
List ==
    \E s \in Orderings(ListRows(invoices, clients)) :
        /\ last' = [op |-> "list", key |-> 0, pre |-> NoPre, status |-> 200, detail |-> "",
                    body |-> [k \in DOMAIN s |-> Summary(s[k])]]
        /\ UNCHANGED <<clients, products, invoices, invoice_items, nextInvoiceId,
                       writes, clock, scope, started, txn>>

\* GET /invoices/{invoice_id}
Get(id) ==
    LET r == get_invoice(invoices, invoice_items, clients, products, id)
    IN  /\ last' = [op |-> "get", key |-> id, pre |-> NoPre, status |-> r.status,
                    detail |-> IF r.status = 200 THEN "" ELSE r.detail,
                    body |-> IF r.status = 200 THEN r ELSE NoResponse]
        /\ UNCHANGED <<clients, products, invoices, invoice_items, nextInvoiceId,
                       writes, clock, scope, started, txn>>

\* DELETE /invoices/{invoice_id}
Delete(id) ==
    LET r == delete_invoice(invoices, invoice_items, id)
    IN  /\ invoices' = r.invoices
        /\ invoice_items' = r.invoice_items
        /\ last' = [op |-> "delete", key |-> id, pre |-> NoPre, status |-> r.status,
                    detail |-> r.detail, body |-> NoResponse]
        /\ UNCHANGED <<clients, products, nextInvoiceId, writes, clock, scope, started, txn>>

\* ------------------------------------------------------------ the rest of the store
\* Rows of clients and products are written by others: a price changes, a
\* product or a client is removed; nothing cascades to invoices.
SetPrice(p, v) ==
    /\ writes < MaxWrites
    /\ p \in DOMAIN products
    /\ products[p] # v
    /\ writes' = writes + 1
    /\ products' = [products EXCEPT ![p] = v]
    /\ last' = NoRequest
    /\ UNCHANGED <<clients, invoices, invoice_items, nextInvoiceId, clock, scope, started, txn>>

RemoveProduct(p) ==
    /\ writes < MaxWrites
    /\ p \in DOMAIN products
    /\ writes' = writes + 1
    /\ products' = [q \in DOMAIN products \ {p} |-> products[q]]
    /\ last' = NoRequest
    /\ UNCHANGED <<clients, invoices, invoice_items, nextInvoiceId, clock, scope, started, txn>>

RemoveClient(c) ==
    /\ writes < MaxWrites
    /\ c \in clients
    /\ writes' = writes + 1
    /\ clients' = clients \ {c}
    /\ last' = NoRequest
    /\ UNCHANGED <<products, invoices, invoice_items, nextInvoiceId, clock, scope, started, txn>>

\* the store's timestamp moves on
Tick ==
    /\ clock < MaxClock
    /\ clock' = clock + 1
    /\ last' = NoRequest
    /\ UNCHANGED <<clients, products, invoices, invoice_items, nextInvoiceId,
                   writes, scope, started, txn>>

Environment ==
    \/ \E p \in ProductIds, v \in Prices : SetPrice(p, v)
    \/ \E p \in ProductIds : RemoveProduct(p)
    \/ \E c \in ClientIds : RemoveClient(c)
    \/ Tick

Next ==
    \/ \E req \in InvoiceCreate : Create(req)
    \/ List
    \/ \E id \in InvoiceIds : Get(id)
    \/ \E id \in InvoiceIds : Delete(id)
    \/ Environment

Spec == Init /\ [][Next]_vars

\* ------------------------------------------------------------ requests in flight
\* Each worker handles one request at a time, statement by statement, inside
\* its own get_db() scope: reads see the committed rows, writes are kept in
\* the scope and reach the tables when the scope is left without an exception.
Others == <<clients, products, writes, clock, scope, last>>

Take == started < MaxRequests /\ started' = started + 1

Finish(w) == txn' = [txn EXCEPT ![w] = Idle]

\* POST /invoices arrives: Validate client exists
CreateBegin(w, req) ==
    /\ txn[w].pc = "idle"
    /\ Take
    /\ IF ClientExists(clients, req)
       THEN txn' = [txn EXCEPT ![w] =
                      [pc |-> "invoice_no", req |-> req, validated_items |-> <<>>,
                       invoice |-> {}, items |-> {}]]
       ELSE Finish(w)
    /\ UNCHANGED <<invoices, invoice_items, nextInvoiceId, Others>>

\* Validate invoice_no is unique
CreateCheckInvoiceNo(w) ==
    /\ txn[w].pc = "invoice_no"
    /\ IF InvoiceNoExists(invoices, txn[w].req)
       THEN Finish(w)
       ELSE txn' = [txn EXCEPT ![w].pc =
                       IF txn[w].req.items = <<>> THEN "insert" ELSE "validate"]
    /\ UNCHANGED <<invoices, invoice_items, nextInvoiceId, started, Others>>

\* Validate all products exist and calculate totals: one turn of the loop
CreateValidateItem(w) ==
    /\ txn[w].pc = "validate"
    /\ LET t    == txn[w]
           item == t.req.items[Len(t.validated_items) + 1]
       IN  IF ProductExists(products, item)
           THEN txn' = [txn EXCEPT
                          ![w].validated_items =
                              Append(t.validated_items, ValidatedItem(products, item)),
                          ![w].pc = IF Len(t.validated_items) + 1 = Len(t.req.items)
                                    THEN "insert" ELSE "validate"]
           ELSE Finish(w)
    /\ UNCHANGED <<invoices, invoice_items, nextInvoiceId, started, Others>>

\* Calculate tax and total; Insert invoice; invoice_id = cursor.lastrowid
CreateInsertInvoice(w) ==
    /\ txn[w].pc = "insert"
    /\ nextInvoiceId <= MaxInvoices
    /\ LET t     == txn[w]
           total == Total(SumValidated(t.validated_items), t.req.tax)
       IN  txn' = [txn EXCEPT
                     ![w].invoice = {InvoiceInsert(t.req, nextInvoiceId, total, clock)},
                     ![w].pc = IF t.req.items = <<>> THEN "fetch" ELSE "items"]
    /\ nextInvoiceId' = nextInvoiceId + 1
    /\ UNCHANGED <<invoices, invoice_items, started, Others>>

\* Insert invoice items: one turn of the loop; the price is read again
CreateInsertItem(w) ==
    /\ txn[w].pc = "items"
    /\ LET t          == txn[w]
           k          == Cardinality(t.items) + 1
           item       == t.req.items[k]
           invoice_id == (CHOOSE i \in t.invoice : TRUE).id
       IN  IF ProductExists(products, item)
           THEN txn' = [txn EXCEPT
                          ![w].items = t.items \cup
                              {ItemInsert(products, item, invoice_id, ItemId(invoice_id, k))},
                          ![w].pc = IF k = Len(t.req.items) THEN "fetch" ELSE "items"]
           ELSE Finish(w)  \* fetchone() is None: an Exception, 500, rollback
    /\ UNCHANGED <<invoices, invoice_items, nextInvoiceId, started, Others>>

\* return get_invoice(invoice_id), then the scope of create is left
CreateFetch(w) ==
    /\ txn[w].pc = "fetch"
    /\ LET t          == txn[w]
           invoice_id == (CHOOSE i \in t.invoice : TRUE).id
           written      == invoices \cup t.invoice
           writtenItems == invoice_items \cup t.items
           body == get_invoice(NestedView(scope, invoices, written),
                               NestedView(scope, invoice_items, writtenItems),
                               clients, products, invoice_id)
           ok   == body.status = 200
       IN  /\ invoices' = ScopeExit(ok, invoices, written)
           /\ invoice_items' = ScopeExit(ok, invoice_items, writtenItems)
    /\ Finish(w)
    /\ UNCHANGED <<nextInvoiceId, started, Others>>

\* DELETE /invoices/{invoice_id} arrives: Check if invoice exists
DeleteBegin(w, id) ==
    /\ txn[w].pc = "idle"
    /\ Take
    /\ IF InvoiceExists(invoices, id)
       THEN txn' = [txn EXCEPT ![w] = [pc |-> "delete_items", id |-> id, items |-> {}]]
       ELSE Finish(w)
    /\ UNCHANGED <<invoices, invoice_items, nextInvoiceId, Others>>

\* Delete invoice items: the rows the statement removes
DeleteItemRows(w) ==
    /\ txn[w].pc = "delete_items"
    /\ txn' = [txn EXCEPT
                 ![w].items = invoice_items \ DeleteItems(invoice_items, txn[w].id),
                 ![w].pc = "delete_invoice"]
    /\ UNCHANGED <<invoices, invoice_items, nextInvoiceId, started, Others>>

\* Delete invoice, then the scope of delete is left
DeleteInvoice(w) ==
    /\ txn[w].pc = "delete_invoice"
    /\ invoices' = DeleteInvoiceRow(invoices, txn[w].id)
    /\ invoice_items' = invoice_items \ txn[w].items
    /\ Finish(w)
    /\ UNCHANGED <<nextInvoiceId, started, Others>>

Step(w) ==
    \/ \E req \in InvoiceCreate : CreateBegin(w, req)
    \/ CreateCheckInvoiceNo(w)
    \/ CreateValidateItem(w)
    \/ CreateInsertInvoice(w)
    \/ CreateInsertItem(w)
    \/ CreateFetch(w)
    \/ \E id \in InvoiceIds : DeleteBegin(w, id)
    \/ DeleteItemRows(w)
    \/ DeleteInvoice(w)

NextConc ==
    \/ \E w \in Workers : Step(w)
    \/ Environment

SpecConc == Init /\ [][NextConc]_vars

\* ============================================================ claims
\* the request handled last was a create that named an unknown client, a used
\* invoice_no or an unknown product
Rejected(l) == ~l.pre.client \/ l.pre.used \/ l.pre.missing > 0

RowsUnchanged == invoices' = invoices /\ invoice_items' = invoice_items

ItemsOf(id) == {it \in invoice_items : it.invoice_id = id}

\* C1: a create that names an unknown client, a used invoice_no or an unknown
\* product at any position of its items list fails, and every create that
\* fails leaves the rows of invoices and invoice_items exactly as they were.
C1_FailedCreateLeavesStore ==
    [][last'.op = "create" =>
          /\ Rejected(last') => last'.status \in {400, 404}
          /\ last'.status # 201 => RowsUnchanged]_vars

\* a create of two items rejected for the product of one of them, with rows in the store
C1_Witness ==
    /\ last.op = "create" /\ last.status = 404 /\ last.detail = "product"
    /\ last.pre.n = 2 /\ last.pre.missing = 1
    /\ invoices # {} /\ invoice_items # {}

\* C2 as stated: every create whose invoice_no is in use is answered 400
\* Conflict and changes no row, whatever its client_id and items.
C2_DuplicateAlwaysConflict ==
    [][(last'.op = "create" /\ last'.pre.used) =>
          (last'.status = 400 /\ RowsUnchanged)]_vars

\* C2 amended: every create whose client_id exists and whose invoice_no is in
\* use is answered 400 Conflict and changes no row, whatever its items.
C2_DuplicateConflictKnownClient ==
    [][(last'.op = "create" /\ last'.pre.client /\ last'.pre.used) =>
          (last'.status = 400 /\ last'.detail = "invoice_no" /\ RowsUnchanged)]_vars

\* a duplicate invoice_no refused although a product of the request is unknown
C2_Witness ==
    /\ last.op = "create" /\ last.status = 400
    /\ last.pre.missing > 0
    /\ \E i \in invoices : i.invoice_no = last.key

\* C3: with requests handled one at a time no two invoices rows share an
\* invoice_no, and a create succeeds only with an invoice_no no row holds.
C3_InvoiceNoUnique ==
    [][/\ \A i, j \in invoices' : i.invoice_no = j.invoice_no => i = j
       /\ (last'.op = "create" /\ last'.status = 201) => ~last'.pre.used]_vars

\* a create that succeeds with invoice_no "A" after the first invoice was
\* deleted, its row the only one in the store
C3_Witness ==
    /\ last.op = "create" /\ last.status = 201
    /\ invoices = {i \in invoices : i.id = 2 /\ i.invoice_no = "A"}
    /\ invoices # {}
    /\ nextInvoiceId = 3

\* C5: a create whose client exists, whose invoice_no is unused and whose
\* products all exist is answered 201, persists the invoice with one item row
\* per input item, and get(id) then returns what create returned.
C5_ValidCreateSucceeds ==
    [][(last'.op = "create" /\ ~Rejected(last')) =>
          /\ last'.status = 201
          /\ \E i \in invoices' :
                /\ i.id = last'.body.id /\ i.invoice_no = last'.key
                /\ Cardinality({it \in invoice_items' : it.invoice_id = i.id})
                     = last'.pre.n
          /\ get_invoice(invoices', invoice_items', clients', products',
                         last'.body.id) = last'.body]_vars

\* C6: get(id) of an invoice in the store succeeds, returns every stored item
\* row of the invoice, and its total is its subtotal plus its tax_amount.
C6_GetOfStoredInvoice ==
    (last.op = "get" /\ InvoiceExists(invoices, last.key)) =>
        /\ last.status = 200
        /\ last.body.items = ItemsOf(last.key)
        /\ last.body.total = last.body.subtotal + last.body.tax_amount

\* C7: delete(id) of an invoice in the store is answered 204 and leaves no
\* invoices row with that id and no invoice_items row with that invoice_id, so
\* that get(id) and delete(id) are then answered 404; delete(id) of an id not
\* in the store is answered 404 and changes no row.
C7_DeleteRemovesInvoice ==
    [][\A id \in InvoiceIds :
          Delete(id) =>
              IF InvoiceExists(invoices, id)
              THEN /\ last'.status = 204
                   /\ ~InvoiceExists(invoices', id)
                   /\ {it \in invoice_items' : it.invoice_id = id} = {}
                   /\ invoices' = {i \in invoices : i.id # id}
                   /\ get_invoice(invoices', invoice_items', clients', products', id).status
                        = 404
                   /\ delete_invoice(invoices', invoice_items', id).status = 404
              ELSE last'.status = 404 /\ RowsUnchanged]_vars

\* an invoice deleted while another invoice and its items stay
C7_Witness ==
    /\ last.op = "delete" /\ last.status = 204
    /\ invoices # {} /\ invoice_items # {}

\* C8: list() returns one summary for every invoice in the store, the most
\* recently created first (ids are handed out in creation order).
C8_ListNewestFirst ==
    last.op = "list" =>
        /\ Len(last.body) = Cardinality(invoices)
        /\ {last.body[k].id : k \in DOMAIN last.body} = {i.id : i \in invoices}
        /\ \A a, b \in DOMAIN last.body : a < b => last.body[a].id > last.body[b].id

\* C4: the stored total of every invoices row is the sum of quantity *
\* unit_price over its stored invoice_items rows, times (1 + tax/100).
C4_TotalMatchesItems ==
    \A i \in invoices : i.total * 100 = SumRows(ItemsOf(i.id)) * (100 + i.tax)

\* C9: two creates in flight at once never leave two invoices rows with the
\* same invoice_no.
C9_NoDuplicateUnderConcurrency ==
    \A i, j \in invoices : i.invoice_no = j.invoice_no => i.id = j.id

\* C10: the committed rows never show part of a create or of a delete: every
\* invoice_items row belongs to an invoices row, a create commits its invoices
\* row together with one item row per input item, and the item rows of an
\* invoice that stays in the store stay with it.
C10_NoPartialWrites ==
    [][/\ \A it \in invoice_items' : InvoiceExists(invoices', it.invoice_id)
       /\ \A w \in Workers :
             (txn[w].pc = "fetch" /\ txn'[w].pc = "idle" /\ invoices' # invoices) =>
                 \E i \in invoices' \ invoices :
                     Cardinality({it \in invoice_items' : it.invoice_id = i.id})
                       = Len(txn[w].req.items)
       /\ \A i \in invoices \cap invoices' :
             {it \in invoice_items' : it.invoice_id = i.id} = ItemsOf(i.id)]_vars

\* an invoice with its two item rows is committed while another create holds
\* an invoice row and one of its two item rows that no reader can see
C10_Witness ==
    /\ \E i \in invoices : Cardinality(ItemsOf(i.id)) = 2
    /\ \E w \in Workers :
          /\ txn[w].pc = "items" /\ txn[w].items # {}
          /\ txn[w].invoice \cap invoices = {}
          /\ txn[w].items \cap invoice_items = {}

====
